---- MODULE Spec2Model ----
(***************************************************************************)
(* Model of the batch feed crank of src/src/main.rs: one run of main(),    *)
(* cut at its await points.  The external collaborators (credential file,  *)
(* oracle relay, ledger RPC, message compiler, signer) answer              *)
(* nondeterministically; every request main issues and every line it       *)
(* prints is recorded, so that properties are stated over what an observer *)
(* of the process can see.                                                 *)
(***************************************************************************)
EXTENDS Integers, Sequences, FiniteSets, TLC

VARIABLES
    FEEDS,             \* the FEEDS slice: a sequence of identifier strings
    keyfile,           \* what read_keypair_file finds at keypair_path
    pc,                \* position of main()
    payer,             \* the loaded Keypair
    feeds,             \* Vec<Pubkey> parsed from FEEDS
    it,                \* number of feeds the for loop has taken
    all_update_ixs,    \* Vec<Instruction>
    lut_map,           \* HashMap<Pubkey, AddressLookupTableAccount>
    merged_luts,       \* Vec<AddressLookupTableAccount>
    cu_limit,          \* u32
    compute_ixes,      \* the two compute budget instructions
    latest_blockhash,
    ixs,               \* instruction sequence handed to try_compile
    v0_msg,
    vtx,
    sim,               \* the simulate response
    result,            \* what main() returned: Running, Ok or Err(e)
    calls,             \* every external request issued, with its outcome
    landed,            \* the ledger holds the transaction (on-chain effect)
    out,               \* lines printed to stdout
    plan_len,          \* a length handed to lines 108-115 on their own
    plan_limit         \* the unit limit they gave for it (0: not yet run)

config == <<FEEDS, keyfile>>
\* lines 108-115 run apart from main, as a function of feeds.len()
planner_io == <<plan_len, plan_limit>>
locals == <<payer, feeds, it, all_update_ixs, lut_map, merged_luts, cu_limit,
            compute_ixes, latest_blockhash, ixs, v0_msg, vtx, sim>>
vars == <<FEEDS, keyfile, pc, payer, feeds, it, all_update_ixs, lut_map,
          merged_luts, cu_limit, compute_ixes, latest_blockhash, ixs, v0_msg,
          vtx, sim, result, calls, landed, out, plan_len, plan_limit>>

(***************************************************************************)
(* Bounds and the values the environment may supply.                       *)
(***************************************************************************)
MaxFeeds == 3

\* Identifier strings: two well-formed base58 keys and one malformed string.
FeedStrings == {"F1", "F2", "bad"}

\* The pubkey a well-formed identifier string decodes to.
DecodedKey == [s \in {"F1", "F2"} |-> IF s = "F1" THEN "key1" ELSE "key2"]

KeyFiles == {[readable |-> FALSE],
             [readable |-> TRUE, pubkey |-> "payer", secret |-> "payer-secret"]}

Lut(k, a) == [key |-> k, addresses |-> a]

\* Lookup-table lists a relay response may carry: none, one shared table,
\* the same table identifier with other contents next to a second table, and
\* a list naming one identifier twice.
LutLists == { <<>>,
              <<Lut("T1", <<"a1">>)>>,
              <<Lut("T1", <<"a2">>), Lut("T2", <<"b1">>)>>,
              <<Lut("T2", <<"b2">>), Lut("T2", <<"b1">>)>> }

Blockhashes == {[hash |-> "H1"], [hash |-> "H2"]}
LogLists == {<<"Program log: first", "Program log: second">>}
TransactionErrors == {"InstructionError", "BlockhashNotFound"}
Signatures == {[signature |-> "S1"]}

Nil == [nil |-> TRUE]
None == [some |-> FALSE]
Some(x) == [some |-> TRUE, val |-> x]

(***************************************************************************)
(* Errors.  An error made with anyhow!/bail! has type "anyhow", the        *)
(* literal text of its format string and the value interpolated into it    *)
(* ("" when there is none); an error propagated by `?` is the              *)
(* collaborator's error unchanged.                                         *)
(***************************************************************************)
Anyhow(msg, detail) == [type |-> "anyhow", msg |-> msg, detail |-> detail]
LibError(type, msg) == [type |-> type, msg |-> msg, detail |-> ""]

RelayErrors == {LibError("relay", "gateway request failed")}
ClientErrors == {LibError("ClientError", "transport timeout")}
SendErrors == ClientErrors \cup {LibError("ClientError", "blockhash expired")}
\* What the simulate request can fail with: a transport failure, or the
\* node refusing a transaction above the maximum transaction size (nothing
\* before line 134 measures the serialized transaction).
SimulateErrors == ClientErrors \cup {LibError("ClientError", "transaction too large")}
\* CompileError: too many account references for one message, too many
\* lookup-table references, or another reason
CompileErrors == {LibError("CompileError", "AccountIndexOverflow"),
                  LibError("CompileError", "AddressTableLookupIndexOverflow"),
                  LibError("CompileError", "UnknownInstructionKey")}
SignerErrors == {LibError("SignerError", "NotEnoughSigners")}

Running == [state |-> "running"]
Ok == [state |-> "ok"]
Err(e) == [state |-> "err", error |-> e]

(***************************************************************************)
(* Pure helpers.                                                           *)
(***************************************************************************)
\* Pubkey::from_str
ParsePubkey(s) ==
    IF s \in DOMAIN DecodedKey
    THEN [ok |-> TRUE, key |-> DecodedKey[s]]
    ELSE [ok |-> FALSE, err |-> LibError("ParsePubkeyError", "Invalid")]

\* .map(Pubkey::from_str).collect::<Result<Vec<_>, _>>(): the parsed keys in
\* order, or the error of the first string that does not parse.
RECURSIVE CollectParsed(_)
CollectParsed(strs) ==
    IF strs = <<>> THEN [ok |-> TRUE, keys |-> <<>>]
    ELSE LET h == ParsePubkey(Head(strs))
         IN IF ~h.ok THEN [ok |-> FALSE, err |-> h.err]
            ELSE LET t == CollectParsed(Tail(strs))
                 IN IF ~t.ok THEN t
                    ELSE [ok |-> TRUE, keys |-> <<h.key>> \o t.keys]

EmptyMap == [k \in {} |-> Nil]

\* insert instead of or_insert: the last table seen wins
OrInsert_Overwrite(map, lut) == (lut.key :> lut) @@ map

\* the vacancy test inverted: a table is stored only over an existing entry
OrInsert_Inverted(map, lut) ==
    IF lut.key \in DOMAIN map THEN [map EXCEPT ![lut.key] = lut] ELSE map

\* lut_map.entry(lut.key).or_insert(lut)
OrInsert(map, lut) ==
    IF lut.key \in DOMAIN map THEN map ELSE map @@ (lut.key :> lut)

\* for lut in luts { lut_map.entry(lut.key).or_insert(lut); }
RECURSIVE MergeLuts(_, _)
MergeLuts(map, luts) ==
    IF luts = <<>> THEN map
    ELSE MergeLuts(OrInsert(map, Head(luts)), Tail(luts))

\* lut_map.into_values().collect(): the values, in any iteration order.
IntoValues(map) ==
    LET n == Cardinality(DOMAIN map)
    IN {s \in [1..n -> {map[k] : k \in DOMAIN map}] :
           \A k \in DOMAIN map : \E i \in 1..n : s[i] = map[k]}

\* A usize of a 64-bit target, in two 32-bit halves: the value is
\* hi * 2^32 + lo.  (Integers here are 32-bit signed, so only lo < 2^31 is
\* written.)
Usize(hi, lo) == [hi |-> hi, lo |-> lo]

\* Vec::len
VecLen(v) == Usize(0, Len(v))

\* `as u32` of a usize: the low 32 bits; the high half is dropped.
AsU32(n) == (n.lo % 65536) + 65536 * ((n.lo \div 65536) % 65536)

per_feed_cu == 300000

\* A u32 over its whole range, in two 16-bit halves: the value is
\* hi16 * 65536 + lo16.  (Integers here are 32-bit signed and stop at
\* 2^31-1; a u32 goes on to 2^32-1.)
U32(hi, lo) == [hi16 |-> hi, lo16 |-> lo]

\* the u32 of an integer 0 .. 2^31-1
U32Of(n) == U32(n \div 65536, n % 65536)

\* u32::MAX = 4294967295
U32Max == U32(65535, 65535)

\* x < y on u32
U32Less(x, y) == x.hi16 < y.hi16 \/ (x.hi16 = y.hi16 /\ x.lo16 < y.lo16)

\* the integer of a u32 below 2^31
U32Int(x) == x.hi16 * 65536 + x.lo16

\* u32::saturating_add: the sum, or u32::MAX when it does not fit
SaturatingAdd(x, y) ==
    IF x.hi16 + y.hi16 + ((x.lo16 + y.lo16) \div 65536) > 65535
    THEN U32Max
    ELSE U32(x.hi16 + y.hi16 + ((x.lo16 + y.lo16) \div 65536),
             (x.lo16 + y.lo16) % 65536)

\* u32::saturating_mul of two u32 given as integers: the product a * b, or
\* u32::MAX when it does not fit.  The product is built by doubling so that
\* no intermediate leaves the 16-bit halves; each partial product is bound
\* as a value (h) before it is used.
RECURSIVE SaturatingMul(_, _)
SaturatingMul(a, b) ==
    IF b = 0
    THEN U32Of(0)
    ELSE CHOOSE p \in { IF b % 2 = 1
                        THEN SaturatingAdd(SaturatingAdd(h, h), U32Of(a))
                        ELSE SaturatingAdd(h, h)
                        : h \in {SaturatingMul(a, b \div 2)} } : TRUE

\* the planner without its ceiling
PlanCuLimit_NoCeiling(n) ==
    CHOOSE u \in { U32Int(IF U32Less(c0, U32Of(300000)) THEN U32Of(300000) ELSE c0)
                   : c0 \in {SaturatingMul(per_feed_cu, AsU32(n))} } : TRUE

\* lines 109-115; the result is at most 1,400,000 and is kept as an integer
PlanCuLimit(n) ==
    CHOOSE u \in { LET c1 == IF U32Less(c0, U32Of(300000)) THEN U32Of(300000) ELSE c0
                       c2 == IF U32Less(U32Of(1400000), c1) THEN U32Of(1400000) ELSE c1
                   IN U32Int(c2)
                   : c0 \in {SaturatingMul(per_feed_cu, AsU32(n))} } : TRUE

SetComputeUnitLimit(u) == [program |-> "ComputeBudget", op |-> "SetComputeUnitLimit", arg |-> u]
SetComputeUnitPrice(p) == [program |-> "ComputeBudget", op |-> "SetComputeUnitPrice", arg |-> p]

ComputeIxes(limit) == <<SetComputeUnitLimit(limit), SetComputeUnitPrice(5000)>>

\* the two extends swapped
BuildIxs_UpdatesFirst(budget, updates) == updates \o budget

\* ixs.extend(compute_ixes); ixs.extend(all_update_ixs);
BuildIxs(budget, updates) == budget \o updates

\* v0::Message::try_compile on success
CompiledMessage(payer_key, instrs, luts, blockhash) ==
    [payer |-> payer_key, instructions |-> instrs, lookup_tables |-> luts,
     recent_blockhash |-> blockhash]

\* VersionedTransaction::try_new on success
SignedTransaction(msg, kp) ==
    [message |-> msg,
     signatures |-> <<[signer |-> kp.pubkey, secret |-> kp.secret, over |-> msg]>>]

SimulateConfig ==
    [sig_verify |-> TRUE, replace_recent_blockhash |-> FALSE,
     commitment |-> "processed", inner_instructions |-> TRUE]

FetchUpdateParams(feed, kp) ==
    [feed |-> feed, payer |-> kp.pubkey, num_signatures |-> 1]

\* a submitter that rebuilds the transaction on a newly fetched anchor
SendArg_Rebuilt(tx) ==
    SignedTransaction([tx.message EXCEPT !.recent_blockhash = [hash |-> "H3"]],
                      [pubkey |-> tx.signatures[1].signer,
                       secret |-> tx.signatures[1].secret])

\* The transaction handed to send_and_confirm_transaction
SendArg(tx) == tx

\* The error main returns when the simulation reports err
SimulationFailed(err) == Anyhow("simulation failed: ", err)

(***************************************************************************)
(* Recording of external requests and printed lines.                       *)
(***************************************************************************)
Request(op, arg) == [op |-> op, arg |-> arg, st |-> "pending", val |-> Nil]
Issue(op, arg) == calls' = Append(calls, Request(op, arg))
\* a synchronous library call: issued and answered in one step
Local(op, arg, st, val) ==
    calls' = Append(calls, [op |-> op, arg |-> arg, st |-> st, val |-> val])
Return(st, val) ==
    calls' = [calls EXCEPT ![Len(calls)] = [@ EXCEPT !.st = st, !.val = val]]
Line(tag, v) == [tag |-> tag, v |-> v]

Fail(e) == /\ pc' = "failed"
           /\ result' = Err(e)

\* What a request does to the ledger by the time it returns.  Only a send
\* writes: a confirmed send has landed, a failed one may or may not have.
LedgerAfter(op, st, before) ==
    IF op = "send_and_confirm_transaction"
    THEN IF st = "ok" THEN {TRUE} ELSE {before, TRUE}
    ELSE {before}

(***************************************************************************)
(* Initial state: before main() runs.                                      *)
(***************************************************************************)
FeedLists == UNION {[1..n -> FeedStrings] : n \in 0..MaxFeeds}

Init ==
    /\ FEEDS \in FeedLists
    /\ keyfile \in KeyFiles
    /\ pc = "read_keypair"
    /\ payer = Nil
    /\ feeds = <<>>
    /\ it = 0
    /\ all_update_ixs = <<>>
    /\ lut_map = EmptyMap
    /\ merged_luts = <<>>
    /\ cu_limit = 0
    /\ compute_ixes = <<>>
    /\ latest_blockhash = Nil
    /\ ixs = <<>>
    /\ v0_msg = Nil
    /\ vtx = Nil
    /\ sim = Nil
    /\ result = Running
    /\ calls = <<>>
    /\ landed = FALSE
    /\ out = <<>>
    /\ plan_len = VecLen(<<>>)
    /\ plan_limit = 0

(***************************************************************************)
(* main(), lines 53-55: load the credential.                               *)
(***************************************************************************)
ReadKeypair ==
    /\ pc = "read_keypair"
    /\ IF keyfile.readable
       THEN /\ payer' = keyfile
            /\ Local("read_keypair_file", Nil, "ok", keyfile.pubkey)
            /\ pc' = "parse_feeds"
            /\ UNCHANGED result
       ELSE /\ Local("read_keypair_file", Nil, "err", LibError("io", "unreadable"))
            /\ Fail(Anyhow("read_keypair_file: ", "unreadable"))
            /\ UNCHANGED payer
    /\ UNCHANGED <<config, planner_io, landed, feeds, it, all_update_ixs, lut_map, merged_luts,
                   cu_limit, compute_ixes, latest_blockhash, ixs, v0_msg, vtx,
                   sim, out>>

(***************************************************************************)
(* main(), lines 58-78: parse FEEDS, reject an empty list, set up the      *)
(* accumulators (building the clients issues no request).                  *)
(***************************************************************************)
\* the emptiness guard left out
IsEmpty_Never(keys) == FALSE

\* feeds.is_empty(), line 64
IsEmpty(keys) == keys = <<>>

\* the anchor fetched during set-up, ahead of collection
AfterParse_AnchorFirst == "blockhash_call"

\* Where main goes with a valid feed list: the loop of line 80
AfterParse == "fetch_call"

ParseFeeds ==
    /\ pc = "parse_feeds"
    /\ LET parsed == CollectParsed(FEEDS)
       IN IF ~parsed.ok
          THEN /\ Fail(Anyhow("Invalid feed pubkey: ", parsed.err.msg))
               /\ UNCHANGED feeds
          ELSE IF IsEmpty(parsed.keys)
          THEN /\ Fail(Anyhow("No feeds provided in FEEDS slice", ""))
               /\ feeds' = parsed.keys
          ELSE /\ feeds' = parsed.keys
               /\ pc' = AfterParse
               /\ UNCHANGED result
    /\ all_update_ixs' = <<>>
    /\ lut_map' = EmptyMap
    /\ UNCHANGED <<config, planner_io, landed, payer, it, merged_luts, cu_limit, compute_ixes,
                   latest_blockhash, ixs, v0_msg, vtx, sim, calls, out>>

(***************************************************************************)
(* main(), lines 80-93: the loop takes the next feed, prints the progress  *)
(* line and issues the relay request; line 104 when the feeds are used up. *)
(***************************************************************************)
\* a collector that issues the next request without awaiting this one
AfterFetchIssue_FanOut == "fetch_call"

\* Where main goes once a relay request is issued: line 94, `.await`
AfterFetchIssue == "fetch_wait"

FetchCall ==
    /\ pc = "fetch_call"
    /\ it < Len(feeds)
    /\ it' = it + 1
    /\ out' = Append(out, Line("Preparing update ix for feed: ", feeds[it + 1]))
    /\ Issue("fetch_update_ix", FetchUpdateParams(feeds[it + 1], payer))
    /\ pc' = AfterFetchIssue
    /\ UNCHANGED <<config, planner_io, landed, payer, feeds, all_update_ixs, lut_map, merged_luts,
                   cu_limit, compute_ixes, latest_blockhash, ixs, v0_msg, vtx,
                   sim, result>>

\* The instruction the relay returns for a request: opaque, one per response.
UpdateIx(feed, serial) == [program |-> "switchboard", feed |-> feed, serial |-> serial]

\* lines 96-101: push the instruction, merge the response's tables
FetchOk ==
    /\ pc = "fetch_wait"
    /\ pc' = "fetch_call"
    /\ \E luts \in LutLists :
         LET ix == UpdateIx(feeds[it], Len(calls))
         IN /\ Return("ok", [update_ix |-> ix, luts |-> luts])
            /\ all_update_ixs' = Append(all_update_ixs, ix)
            /\ lut_map' = MergeLuts(lut_map, luts)
    /\ landed' \in LedgerAfter(calls[Len(calls)].op, "ok", landed)
    /\ UNCHANGED <<config, planner_io, payer, feeds, it, merged_luts, cu_limit, compute_ixes,
                   latest_blockhash, ixs, v0_msg, vtx, sim, result, out>>

\* a collector that skips the feed whose request failed
AfterFetchError_SkipFeed == "fetch_call"

\* Where main goes when a relay request fails: line 94, `.await?`
AfterFetchError == "failed"

FetchErr ==
    /\ pc = "fetch_wait"
    /\ \E e \in RelayErrors :
         /\ pc' = AfterFetchError
         /\ result' = IF pc' = "failed" THEN Err(e) ELSE result
         /\ Return("err", e)
    /\ landed' \in LedgerAfter(calls[Len(calls)].op, "err", landed)
    /\ UNCHANGED <<config, planner_io, locals, out>>

\* line 104
CollectLuts ==
    /\ pc = "fetch_call"
    /\ it = Len(feeds)
    /\ merged_luts' \in IntoValues(lut_map)
    /\ pc' = "budget"
    /\ UNCHANGED <<config, planner_io, landed, payer, feeds, it, all_update_ixs, lut_map, cu_limit,
                   compute_ixes, latest_blockhash, ixs, v0_msg, vtx, sim, result,
                   calls, out>>

(***************************************************************************)
(* main(), lines 108-121: the compute budget.                              *)
(***************************************************************************)
PlanBudget ==
    /\ pc = "budget"
    /\ cu_limit' = PlanCuLimit(VecLen(feeds))
    /\ compute_ixes' = ComputeIxes(cu_limit')
    /\ pc' = "blockhash_call"
    /\ UNCHANGED <<config, planner_io, landed, payer, feeds, it, all_update_ixs, lut_map, merged_luts,
                   latest_blockhash, ixs, v0_msg, vtx, sim, result, calls, out>>

(***************************************************************************)
(* main(), line 123: the freshness anchor.                                 *)
(***************************************************************************)
BlockhashCall ==
    /\ pc = "blockhash_call"
    /\ Issue("get_latest_blockhash", Nil)
    /\ pc' = "blockhash_wait"
    /\ UNCHANGED <<config, planner_io, landed, locals, result, out>>

BlockhashOk ==
    /\ pc = "blockhash_wait"
    /\ pc' = "compile"
    /\ \E h \in Blockhashes :
         /\ Return("ok", h)
         /\ latest_blockhash' = h
    /\ landed' \in LedgerAfter(calls[Len(calls)].op, "ok", landed)
    /\ UNCHANGED <<config, planner_io, payer, feeds, it, all_update_ixs, lut_map, merged_luts,
                   cu_limit, compute_ixes, ixs, v0_msg, vtx, sim, result, out>>

BlockhashErr ==
    /\ pc = "blockhash_wait"
    /\ \E e \in ClientErrors :
         /\ Fail(e)
         /\ Return("err", e)
    /\ landed' \in LedgerAfter(calls[Len(calls)].op, "err", landed)
    /\ UNCHANGED <<config, planner_io, locals, out>>

(***************************************************************************)
(* main(), lines 125-130: build the instruction sequence and compile.      *)
(***************************************************************************)
\* The error main returns when try_compile fails: line 130, `?`
CompileFailure(e) == e

Compile ==
    /\ pc = "compile"
    /\ ixs' = BuildIxs(compute_ixes, all_update_ixs)
    /\ LET arg == [payer |-> payer.pubkey, instructions |-> ixs',
                   lookup_tables |-> merged_luts, recent_blockhash |-> latest_blockhash]
       IN \/ /\ v0_msg' = CompiledMessage(payer.pubkey, ixs', merged_luts, latest_blockhash)
             /\ Local("try_compile", arg, "ok", v0_msg')
             /\ pc' = "sign"
             /\ UNCHANGED result
          \/ /\ \E e \in CompileErrors :
                   Local("try_compile", arg, "err", e) /\ Fail(CompileFailure(e))
             /\ UNCHANGED v0_msg
    /\ UNCHANGED <<config, planner_io, landed, payer, feeds, it, all_update_ixs, lut_map, merged_luts,
                   cu_limit, compute_ixes, latest_blockhash, vtx, sim, out>>

(***************************************************************************)
(* main(), line 131: sign.                                                 *)
(***************************************************************************)
Sign ==
    /\ pc = "sign"
    /\ \/ /\ vtx' = SignedTransaction(v0_msg, payer)
          /\ Local("try_new", v0_msg, "ok", vtx')
          /\ pc' = "simulate_call"
          /\ UNCHANGED result
       \/ /\ \E e \in SignerErrors : Local("try_new", v0_msg, "err", e) /\ Fail(e)
          /\ UNCHANGED vtx
    /\ UNCHANGED <<config, planner_io, landed, payer, feeds, it, all_update_ixs, lut_map, merged_luts,
                   cu_limit, compute_ixes, latest_blockhash, ixs, v0_msg, sim,
                   out>>

(***************************************************************************)
(* main(), lines 133-157: the simulation gate.                             *)
(***************************************************************************)
\* a dry run made with the submitting method
SimulateOp_Send == "send_and_confirm_transaction"

\* The RPC method of the dry run: line 134
SimulateOp == "simulate_transaction"

SimulateCall ==
    /\ pc = "simulate_call"
    /\ Issue(SimulateOp, [tx |-> vtx, config |-> SimulateConfig])
    /\ pc' = "simulate_wait"
    /\ UNCHANGED <<config, planner_io, landed, locals, result, out>>

SimulateOk ==
    /\ pc = "simulate_wait"
    /\ pc' = "gate"
    /\ \E logs \in {None} \cup {Some(l) : l \in LogLists},
          err \in {None} \cup {Some(e) : e \in TransactionErrors} :
         /\ Return("ok", [logs |-> logs, err |-> err])
         /\ sim' = [logs |-> logs, err |-> err]
    /\ landed' \in LedgerAfter(calls[Len(calls)].op, "ok", landed)
    /\ UNCHANGED <<config, planner_io, payer, feeds, it, all_update_ixs, lut_map, merged_luts,
                   cu_limit, compute_ixes, latest_blockhash, ixs, v0_msg, vtx,
                   result, out>>

\* a gate that lets a run through when the dry run got no response
AfterSimulateError_Proceed == "send_call"

\* Where main goes when the simulate request itself fails: line 146, `?`
AfterSimulateError == "failed"

SimulateErr ==
    /\ pc = "simulate_wait"
    /\ \E e \in SimulateErrors :
         /\ pc' = AfterSimulateError
         /\ result' = IF pc' = "failed" THEN Err(e) ELSE result
         /\ Return("err", e)
    /\ landed' \in LedgerAfter(calls[Len(calls)].op, "err", landed)
    /\ UNCHANGED <<config, planner_io, locals, out>>

\* lines 148-154: the lines printed for a response
LogDump(logs, n) ==
    IF logs.some
    THEN <<Line("--- simulation logs ---", n)>>
         \o [i \in 1..Len(logs.val) |-> Line("log", logs.val[i])]
         \o <<Line("----------------------------------", Nil)>>
    ELSE <<>>

\* a gate that tests the error first and dumps the logs only on success
GateOutput_ErrFirst(response, n) ==
    IF response.err.some THEN <<>> ELSE LogDump(response.logs, n)

\* What the gate prints for a response: lines 148-154 run before line 155
GateOutput(response, n) == LogDump(response.logs, n)

\* a gate that ignores the execution error
GateNext_IgnoreErr(response) == "send_call"

\* Where main goes after a response: line 155-157
GateNext(response) == IF response.err.some THEN "failed" ELSE "send_call"

Gate ==
    /\ pc = "gate"
    /\ out' = out \o GateOutput(sim, Len(FEEDS))
    /\ pc' = GateNext(sim)
    /\ result' = IF pc' = "failed" THEN Err(SimulationFailed(sim.err.val)) ELSE result
    /\ UNCHANGED <<config, planner_io, landed, locals, calls>>

(***************************************************************************)
(* main(), lines 159-165: submit and confirm.                              *)
(***************************************************************************)
SendCall ==
    /\ pc = "send_call"
    /\ Issue("send_and_confirm_transaction", SendArg(vtx))
    /\ pc' = "send_wait"
    /\ UNCHANGED <<config, planner_io, landed, locals, result, out>>

SendOk ==
    /\ pc = "send_wait"
    /\ pc' = "done"
    /\ result' = Ok
    /\ \E s \in Signatures :
         /\ Return("ok", s)
         /\ out' = out \o <<Line("Cranked feeds in one tx -> ", <<Len(FEEDS), s>>)>>
                       \o [i \in 1..Len(FEEDS) |-> Line("  * ", FEEDS[i])]
    /\ landed' \in LedgerAfter(calls[Len(calls)].op, "ok", landed)
    /\ UNCHANGED <<config, planner_io, locals>>

\* a submitter that, after a failed send, parks waiting for a confirmation
\* that nothing delivers
AfterSendError_AwaitConfirmation == "confirm_wait"

\* a submitter that goes back for a new anchor after a failed send
AfterSendError_Reassemble == "blockhash_call"

\* a submitter that sends the same transaction again after a failed send
AfterSendError_Resend == "send_call"

\* Where main goes when send_and_confirm_transaction fails: line 159, `?`
AfterSendError == "failed"

SendErr ==
    /\ pc = "send_wait"
    /\ \E e \in SendErrors :
         /\ pc' = AfterSendError
         /\ result' = IF pc' = "failed" THEN Err(e) ELSE result
         /\ Return("err", e)
    /\ landed' \in LedgerAfter(calls[Len(calls)].op, "err", landed)
    /\ UNCHANGED <<config, planner_io, locals, out>>

Next ==
    \/ ReadKeypair
    \/ ParseFeeds
    \/ FetchCall
    \/ FetchOk
    \/ FetchErr
    \/ CollectLuts
    \/ PlanBudget
    \/ BlockhashCall
    \/ BlockhashOk
    \/ BlockhashErr
    \/ Compile
    \/ Sign
    \/ SimulateCall
    \/ SimulateOk
    \/ SimulateErr
    \/ Gate
    \/ SendCall
    \/ SendOk
    \/ SendErr

Spec == Init /\ [][Next]_vars

\* main is a single task that runs on whenever it can, and every request it
\* awaits is answered (with success or failure).
FairSpec == Spec /\ WF_vars(Next)

(***************************************************************************)
(* The planner on longer feed lists.  A run is taken up where collection   *)
(* has just finished for a list of n well-formed identifiers whose relay   *)
(* responses carried no lookup tables, and continues with the same steps.  *)
(***************************************************************************)
MaxPlanFeeds == 12

InitPlanner ==
    \E n \in 1..MaxPlanFeeds :
      /\ FEEDS = [i \in 1..n |-> "F1"]
      /\ keyfile \in {k \in KeyFiles : k.readable}
      /\ pc = "budget"
      /\ payer = keyfile
      /\ feeds = [i \in 1..n |-> DecodedKey["F1"]]
      /\ it = n
      /\ all_update_ixs = [i \in 1..n |-> UpdateIx(DecodedKey["F1"], i + 1)]
      /\ lut_map = EmptyMap
      /\ merged_luts = <<>>
      /\ cu_limit = 0
      /\ compute_ixes = <<>>
      /\ latest_blockhash = Nil
      /\ ixs = <<>>
      /\ v0_msg = Nil
      /\ vtx = Nil
      /\ sim = Nil
      /\ result = Running
      /\ calls = <<[op |-> "read_keypair_file", arg |-> Nil, st |-> "ok",
                    val |-> keyfile.pubkey]>>
                 \o [i \in 1..n |->
                       [op |-> "fetch_update_ix",
                        arg |-> FetchUpdateParams(DecodedKey["F1"], keyfile),
                        st |-> "ok",
                        val |-> [update_ix |-> UpdateIx(DecodedKey["F1"], i + 1),
                                 luts |-> <<>>]]]
      /\ landed = FALSE
      /\ out = [i \in 1..n |-> Line("Preparing update ix for feed: ", DecodedKey["F1"])]
      /\ plan_len = VecLen(<<>>)
      /\ plan_limit = 0

NextPlanner ==
    \/ PlanBudget
    \/ BlockhashCall
    \/ BlockhashOk
    \/ BlockhashErr
    \/ Compile
    \/ Sign
    \/ SimulateCall
    \/ SimulateOk
    \/ SimulateErr
    \/ Gate
    \/ SendCall
    \/ SendOk
    \/ SendErr

SpecPlanner == InitPlanner /\ [][NextPlanner]_vars

(***************************************************************************)
(* The planner on feed counts up to and beyond the 32-bit range.  A list   *)
(* of 2^32 entries cannot be written out, and lines 108-115 read nothing   *)
(* of the list but its length: they are a function of feeds.len().  Here   *)
(* that function is applied on its own to a length hi * 2^32 + lo, outside *)
(* any run: main has not started and its variables keep their initial      *)
(* values.                                                                 *)
(***************************************************************************)
MaxLenHi == 1
MaxLenLo == 30
\* low halves whose product with 300,000 passes 2^31-1 and passes u32::MAX
LargeLo == {7159, 14316, 14317}

InitLargeCount ==
    /\ FEEDS = <<"F1">>
    /\ keyfile \in {k \in KeyFiles : k.readable}
    /\ pc = "read_keypair"
    /\ payer = Nil
    /\ feeds = <<>>
    /\ it = 0
    /\ all_update_ixs = <<>>
    /\ lut_map = EmptyMap
    /\ merged_luts = <<>>
    /\ cu_limit = 0
    /\ compute_ixes = <<>>
    /\ latest_blockhash = Nil
    /\ ixs = <<>>
    /\ v0_msg = Nil
    /\ vtx = Nil
    /\ sim = Nil
    /\ result = Running
    /\ calls = <<>>
    /\ landed = FALSE
    /\ out = <<>>
    /\ plan_len \in {Usize(h, l) : h \in 0..MaxLenHi, l \in (0..MaxLenLo) \cup LargeLo}
                    \ {Usize(0, 0)}
    /\ plan_limit = 0

\* lines 108-115 applied to the length
ApplyPlanCuLimit ==
    /\ plan_limit = 0
    /\ plan_limit' = PlanCuLimit(plan_len)
    /\ UNCHANGED <<config, pc, locals, result, calls, landed, out, plan_len>>

NextLargeCount == ApplyPlanCuLimit

SpecLargeCount == InitLargeCount /\ [][NextLargeCount]_vars

(***************************************************************************)
(* Vocabulary of the properties.                                           *)
(***************************************************************************)
CallIdx == 1..Len(calls)
CallsOf(op) == SelectSeq(calls, LAMBDA c : c.op = op)
Issued(op) == \E i \in CallIdx : calls[i].op = op
NetworkOps == {"fetch_update_ix", "get_latest_blockhash", "simulate_transaction",
               "send_and_confirm_transaction"}
Terminated == pc \in {"done", "failed"}

\* a simulate call answered with a response whose err is present
SimReportedErr(i) ==
    /\ calls[i].op = "simulate_transaction"
    /\ calls[i].st = "ok"
    /\ calls[i].val.err.some

\* C1: when the simulate call returns a response whose execution error is
\* present, no send call is ever issued, the run ends failed, and the error
\* main returns carries the simulation's error value.
C1_SimErrBlocksSend ==
    \A i \in CallIdx :
        SimReportedErr(i) =>
            /\ ~Issued("send_and_confirm_transaction")
            /\ pc \in {"gate", "failed"}
            /\ pc = "failed" =>
                  /\ result.state = "err"
                  /\ result.error.type = "anyhow"
                  /\ result.error.detail = calls[i].val.err.val

C1_Witness ==
    /\ pc = "failed"
    /\ \E i \in CallIdx : SimReportedErr(i) /\ calls[i].val.err.val = "BlockhashNotFound"
    /\ result.error.detail = "BlockhashNotFound"

\* C2: the transaction of every send call is the one handed to the simulate
\* call right before it (same anchor, instructions, lookup tables and
\* signature), which is the transaction try_new produced; nothing is fetched,
\* compiled or signed in between, and the simulate request does not ask for
\* the anchor to be replaced.
C2_SendsWhatWasSimulated ==
    \A j \in CallIdx :
        calls[j].op = "send_and_confirm_transaction" =>
            /\ j > 1
            /\ calls[j - 1].op = "simulate_transaction"
            /\ calls[j - 1].st = "ok"
            /\ calls[j - 1].arg.tx = calls[j].arg
            /\ calls[j - 1].arg.config.replace_recent_blockhash = FALSE
            /\ \E k \in 1..(j - 1) :
                  /\ calls[k].op = "try_new"
                  /\ calls[k].val = calls[j].arg
            /\ \E k \in 1..(j - 1) :
                  /\ calls[k].op = "get_latest_blockhash"
                  /\ calls[k].val = calls[j].arg.message.recent_blockhash

C2_Witness ==
    /\ pc = "done"
    /\ \E j \in CallIdx :
          /\ calls[j].op = "send_and_confirm_transaction"
          /\ calls[j].arg.message.recent_blockhash = [hash |-> "H2"]
          /\ Len(calls[j].arg.message.lookup_tables) = 2

Clamp(x, lo, hi) == IF x < lo THEN lo ELSE IF x > hi THEN hi ELSE x

\* the budget has been planned in this run
Planned == pc \notin {"read_keypair", "parse_feeds", "fetch_call", "fetch_wait",
                      "budget"}
           /\ (pc = "failed" => Issued("get_latest_blockhash"))

\* C3: for a feed list with N >= 1 entries the unit limit placed in the
\* unit-limit instruction is clamp(N * 300,000, 300,000, 1,400,000), hence
\* between the floor and the ceiling, and the unit price is 5,000 whatever N.
C3_UnitLimitIsClamp ==
    Planned =>
        LET N == Len(FEEDS)
            want == Clamp(N * 300000, 300000, 1400000)
        IN /\ N >= 1
           /\ cu_limit = want
           /\ cu_limit >= 300000 /\ cu_limit <= 1400000
           /\ compute_ixes = <<SetComputeUnitLimit(want), SetComputeUnitPrice(5000)>>
           /\ \A i \in CallIdx :
                 calls[i].op = "try_compile" =>
                     /\ calls[i].arg.instructions[1] = SetComputeUnitLimit(want)
                     /\ calls[i].arg.instructions[2] = SetComputeUnitPrice(5000)

C3_Witness ==
    /\ Len(FEEDS) = 10
    /\ \E i \in CallIdx :
          /\ calls[i].op = "try_compile"
          /\ calls[i].arg.instructions[1].arg = 1400000


\* C4: the instruction sequence handed to the compiler has N+2 entries for N
\* feeds: the unit-limit instruction, the unit-price instruction, then at
\* position 2+i the instruction the relay returned for the i-th feed of FEEDS.
C4_InstructionOrder ==
    \A c \in CallIdx :
        calls[c].op = "try_compile" =>
            LET instrs == calls[c].arg.instructions
                fetches == CallsOf("fetch_update_ix")
                N == Len(FEEDS)
            IN /\ Len(instrs) = N + 2
               /\ instrs[1] = SetComputeUnitLimit(cu_limit)
               /\ instrs[2] = SetComputeUnitPrice(5000)
               /\ Len(fetches) = N
               /\ \A k \in 1..N :
                     /\ fetches[k].arg.feed = DecodedKey[FEEDS[k]]
                     /\ fetches[k].st = "ok"
                     /\ instrs[2 + k] = fetches[k].val.update_ix

C4_Witness ==
    /\ FEEDS = <<"F2", "F1", "F2">>
    /\ \E c \in CallIdx :
          /\ calls[c].op = "try_compile"
          /\ calls[c].st = "ok"
          /\ Len(calls[c].arg.instructions) = 5
          /\ calls[c].arg.instructions[4] = CallsOf("fetch_update_ix")[2].val.update_ix
          /\ CallsOf("fetch_update_ix")[2].arg.feed = DecodedKey["F1"]

ConfigInvalid ==
    \/ FEEDS = <<>>
    \/ \E i \in 1..Len(FEEDS) : FEEDS[i] \notin DOMAIN DecodedKey
    \/ ~keyfile.readable

IsConfigError(e) ==
    /\ e.type = "anyhow"
    /\ e.msg \in {"read_keypair_file: ", "Invalid feed pubkey: ",
                   "No feeds provided in FEEDS slice"}

\* C5: with an invalid configuration (empty feed list, malformed identifier,
\* unreadable credential) the run ends failed with a configuration error and
\* no relay request and no ledger RPC request is issued at any point.
C5_InvalidConfigNoNetwork ==
    ConfigInvalid =>
        /\ \A i \in CallIdx : calls[i].op \notin NetworkOps
        /\ pc \in {"read_keypair", "parse_feeds", "failed"}
        /\ pc = "failed" => result.state = "err" /\ IsConfigError(result.error)

C5_Witness ==
    /\ FEEDS = <<>>
    /\ keyfile.readable
    /\ pc = "failed"
    /\ result.error.msg = "No feeds provided in FEEDS slice"

\* a relay request that failed
FetchFailed(i) == calls[i].op = "fetch_update_ix" /\ calls[i].st = "err"

\* C6: when the relay request for the feed at some position fails, the run
\* ends failed with no partial batch: no request follows it (none for a later
\* feed, no anchor fetch, compilation, signing, simulation or send).
C6_FetchFailureAborts ==
    \A i \in CallIdx :
        FetchFailed(i) =>
            /\ i = Len(calls)
            /\ pc = "failed"
            /\ result.state = "err"
            /\ \A k \in 1..(i - 1) :
                  calls[k].op \in {"read_keypair_file", "fetch_update_ix"}
            /\ Len(CallsOf("fetch_update_ix")) = it
            /\ latest_blockhash = Nil /\ ixs = <<>> /\ v0_msg = Nil /\ vtx = Nil

C6_Witness ==
    /\ Len(FEEDS) = 3
    /\ pc = "failed"
    /\ Len(CallsOf("fetch_update_ix")) = 2
    /\ FetchFailed(Len(calls))

\* C7: when the relay request for a feed fails, the error main returns
\* carries the identifier of the feed whose request failed.
C7_ErrorNamesFeed ==
    \A i \in CallIdx :
        (FetchFailed(i) /\ pc = "failed") =>
            /\ result.state = "err"
            /\ \/ result.error.detail = calls[i].arg.feed
               \/ result.error.msg = calls[i].arg.feed

\* the lookup-table lists of the relay responses, in collection order
FetchedLutLists ==
    LET oks == SelectSeq(calls, LAMBDA c : c.op = "fetch_update_ix" /\ c.st = "ok")
    IN [k \in 1..Len(oks) |-> oks[k].val.luts]

RECURSIVE MergeAll(_, _)
MergeAll(map, lists) ==
    IF lists = <<>> THEN map
    ELSE MergeAll(MergeLuts(map, Head(lists)), Tail(lists))

AllKeys(lists) ==
    UNION {{lists[k][j].key : j \in 1..Len(lists[k])} : k \in 1..Len(lists)}

\* C8: the merged list holds exactly the distinct table identifiers of all
\* per-feed lists, each once; merging the lists in any other order, or
\* merging them once more, gives the same set of identifiers.
C8_MergeMembership ==
    pc = "budget" =>
        LET lists == FetchedLutLists
            n == Len(lists)
            ids == {merged_luts[i].key : i \in 1..Len(merged_luts)}
        IN /\ ids = AllKeys(lists)
           /\ Len(merged_luts) = Cardinality(AllKeys(lists))
           /\ \A p \in Permutations(1..n) :
                 DOMAIN MergeAll(EmptyMap, [k \in 1..n |-> lists[p[k]]]) = ids
           /\ DOMAIN MergeAll(lut_map, lists) = ids
           /\ DOMAIN MergeAll(EmptyMap, lists \o lists) = ids

C8_Witness ==
    /\ pc = "budget"
    /\ Len(FEEDS) = 3
    /\ FetchedLutLists = [k \in 1..3 |-> <<Lut("T1", <<"a1">>)>>]
    /\ Len(merged_luts) = 1

\* the pipeline stage a position of main belongs to
StageRank(p) ==
    CASE p \in {"read_keypair", "parse_feeds", "fetch_call", "fetch_wait"} -> 1
      [] p = "budget" -> 2
      [] p \in {"blockhash_call", "blockhash_wait", "compile", "sign"} -> 3
      [] p \in {"simulate_call", "simulate_wait", "gate"} -> 4
      [] p \in {"send_call", "send_wait"} -> 5
      [] p = "done" -> 6
      [] p = "failed" -> 7

\* C9: every step stays in its stage, moves to the next one of Collecting,
\* Budgeting, Assembling, Simulating, Submitting, Done, or enters Failed; no
\* step re-enters an earlier stage; Done and Failed are left by no step and
\* no request is issued from them.
C9_StagesForwardOnly ==
    [][ /\ StageRank(pc') >= StageRank(pc)
        /\ StageRank(pc') \in {StageRank(pc), StageRank(pc) + 1, 7}
        /\ Terminated => (pc' = pc /\ calls' = calls) ]_vars

C9_Witness ==
    /\ pc = "failed"
    /\ calls[Len(calls)].op = "send_and_confirm_transaction"
    /\ calls[Len(calls)].st = "err"

\* C10: nothing is retried: the relay is asked at most once per position of
\* the feed sequence, the anchor is fetched, the transaction compiled, signed,
\* simulated and sent at most once each, and a failed send is the last
\* request of the run.
C10_NoRetry ==
    /\ LET fetches == CallsOf("fetch_update_ix")
       IN /\ Len(fetches) <= Len(feeds)
          /\ \A k \in 1..Len(fetches) : fetches[k].arg.feed = feeds[k]
    /\ \A op \in {"read_keypair_file", "get_latest_blockhash", "try_compile",
                   "try_new", "simulate_transaction",
                   "send_and_confirm_transaction"} : Len(CallsOf(op)) <= 1
    /\ \A i \in CallIdx :
          (calls[i].op = "send_and_confirm_transaction" /\ calls[i].st = "err") =>
              i = Len(calls) /\ pc = "failed"

C10_Witness ==
    /\ pc = "failed"
    /\ Len(FEEDS) = 3
    /\ calls[Len(calls)].op = "send_and_confirm_transaction"
    /\ calls[Len(calls)].val = LibError("ClientError", "blockhash expired")


\* C11: the planner never wraps: for every feed count N, also at or beyond
\* 2^32, whenever N * 300,000 is at least 1,400,000 the unit limit is
\* 1,400,000.
C11_NoWrapForLargeCounts ==
    plan_limit # 0 =>
        ((plan_len.hi >= 1 \/ plan_len.lo >= 5) =>
            plan_limit = 1400000)


\* the failures a batch too large for one transaction produces: the two
\* reference-count overflows of try_compile and the node's size refusal
CompileLimitErrors == {LibError("CompileError", "AccountIndexOverflow"),
                       LibError("CompileError", "AddressTableLookupIndexOverflow")}
SizeLimitError == LibError("ClientError", "transaction too large")

\* the run ended because the batch exceeds what one transaction can hold
BatchLimitExceeded ==
    /\ pc = "failed"
    /\ calls # <<>>
    /\ calls[Len(calls)].st = "err"
    /\ \/ /\ calls[Len(calls)].op = "try_compile"
          /\ calls[Len(calls)].val \in CompileLimitErrors
       \/ /\ calls[Len(calls)].op = "simulate_transaction"
          /\ calls[Len(calls)].val = SizeLimitError

\* the kind of an error: what a caller of main tells failures apart by
ErrorKind(e) == e.type

\* the kinds of the failures that have another cause: the other assembly
\* failures, the failures of the other stages and main's own errors
OtherFailureKinds ==
    {ErrorKind(e) : e \in RelayErrors \cup ClientErrors \cup SendErrors \cup SignerErrors
                          \cup (CompileErrors \ CompileLimitErrors)}
    \cup {ErrorKind(Anyhow("", ""))}

\* C12: when a run fails because the batch exceeds the maximum transaction
\* size or account-reference count, the error main returns is of a kind of
\* its own: not the kind of any other assembly failure (a signing failure,
\* another compile failure) nor of a failure of another stage.
C12_BatchTooLargeKind ==
    BatchLimitExceeded =>
        /\ result.state = "err"
        /\ ErrorKind(result.error) \notin OtherFailureKinds


\* the log lines printed so far
PrintedLogs ==
    LET ls == SelectSeq(out, LAMBDA x : x.tag = "log")
    IN [j \in 1..Len(ls) |-> ls[j].v]

\* a simulate call answered with a response that has log lines
SimReturnedLogs(i) ==
    /\ calls[i].op = "simulate_transaction"
    /\ calls[i].st = "ok"
    /\ calls[i].val.logs.some

\* C13: the log lines of a simulate response are printed whatever the
\* outcome: they are on the output, in order, once main has gone past the
\* gate, that is before any send call is issued and, when the response also
\* carries an error, when main has aborted.
C13_LogsAlwaysPrinted ==
    \A i \in CallIdx :
        (SimReturnedLogs(i) /\ pc # "gate") =>
            /\ pc \in {"send_call", "send_wait", "done", "failed"}
            /\ PrintedLogs = calls[i].val.logs.val

C13_Witness ==
    /\ pc = "failed"
    /\ \E i \in CallIdx : SimReturnedLogs(i) /\ SimReportedErr(i)
    /\ Len(PrintedLogs) = 2
    /\ ~Issued("send_and_confirm_transaction")


\* main has not begun the Submitting stage
BeforeSubmitting ==
    \/ StageRank(pc) < 5
    \/ pc = "failed" /\ ~Issued("send_and_confirm_transaction")

\* C14: a run stopped at any point before the Submitting stage has had no
\* on-chain effect: until then no send has been issued and the ledger does
\* not hold the transaction; feed requests, the anchor fetch, compiling,
\* signing and simulating leave the ledger as it was.
C14_NoEffectBeforeSubmitting ==
    /\ BeforeSubmitting =>
          /\ ~landed
          /\ \A i \in CallIdx : calls[i].op # "send_and_confirm_transaction"
    /\ landed =>
          \E i \in CallIdx :
              /\ calls[i].op = "send_and_confirm_transaction"
              /\ calls[i].st # "pending"
              /\ StageRank(pc) > 5

C14_Witness ==
    /\ pc = "gate"
    /\ ~sim.err.some
    /\ Issued("simulate_transaction")
    /\ ~landed


RECURSIVE Flatten(_)
Flatten(lists) ==
    IF lists = <<>> THEN <<>> ELSE Head(lists) \o Flatten(Tail(lists))

\* the earliest table with identifier k in a sequence of tables
FirstWithKey(tables, k) ==
    LET first == CHOOSE i \in 1..Len(tables) :
                     /\ tables[i].key = k
                     /\ \A j \in 1..(i - 1) : tables[j].key # k
    IN tables[first]

\* C15: for every table identifier in the relay responses, the table kept
\* in the merged mapping is its earliest occurrence in collection order
\* (earliest feed, earliest position in that feed's list); a later table
\* with the same identifier and other contents does not replace it, and the
\* merged list holds exactly the kept tables.
C15_FirstSeenWins ==
    LET seen == Flatten(FetchedLutLists)
    IN /\ DOMAIN lut_map = {seen[i].key : i \in 1..Len(seen)}
       /\ \A k \in DOMAIN lut_map : lut_map[k] = FirstWithKey(seen, k)
       /\ StageRank(pc) \in 2..6 =>
             {merged_luts[i] : i \in 1..Len(merged_luts)}
                 = {lut_map[k] : k \in DOMAIN lut_map}

C15_Witness ==
    /\ pc = "budget"
    /\ Len(FetchedLutLists) = 3
    /\ FetchedLutLists[1] = <<Lut("T2", <<"b2">>), Lut("T2", <<"b1">>)>>
    /\ FetchedLutLists[2] = <<Lut("T1", <<"a1">>)>>
    /\ FetchedLutLists[3] = <<Lut("T1", <<"a2">>), Lut("T2", <<"b1">>)>>
    /\ lut_map["T1"] = Lut("T1", <<"a1">>)
    /\ lut_map["T2"] = Lut("T2", <<"b2">>)


\* C16: collection is sequential and in feed order: the k-th relay request
\* is the one for position k of the feed sequence, it is issued only when
\* every earlier one has returned successfully, a completed collection has
\* made exactly one request per position, and never is more than one
\* request (relay or RPC) outstanding.
C16_SequentialCollection ==
    LET f == CallsOf("fetch_update_ix")
    IN /\ Len(f) = it
       /\ Len(f) <= Len(feeds)
       /\ \A k \in 1..Len(f) :
             /\ f[k].arg.feed = feeds[k]
             /\ k < Len(f) => f[k].st = "ok"
       /\ StageRank(pc) \in 2..6 =>
             /\ Len(f) = Len(feeds)
             /\ \A k \in 1..Len(f) : f[k].st = "ok"
       /\ \A i \in CallIdx : calls[i].st = "pending" => i = Len(calls)
       /\ Cardinality({i \in CallIdx : calls[i].st = "pending"}) <= 1

C16_Witness ==
    /\ pc = "fetch_wait"
    /\ it = 3
    /\ feeds = <<"key2", "key1", "key1">>
    /\ calls[Len(calls)].st = "pending"
    /\ calls[Len(calls)].arg.feed = "key1"
    /\ CallsOf("fetch_update_ix")[1].st = "ok"
    /\ CallsOf("fetch_update_ix")[2].st = "ok"


\* some call of op before position j returned Ok
OkBefore(op, j) ==
    \E i \in 1..(j - 1) : calls[i].op = op /\ calls[i].st = "ok"

\* C17: a send is issued only after every feed request, the anchor fetch,
\* compilation and signing have succeeded and the simulate call has returned
\* a response with no execution error; a simulate request that fails without
\* a response is followed by no send; and the run is Done only after
\* send-and-confirm has returned a signature.
C17_SendOnlyAfterAllSucceeded ==
    /\ \A j \in CallIdx :
          calls[j].op = "send_and_confirm_transaction" =>
              /\ Len(feeds) >= 1
              /\ \A k \in 1..Len(feeds) :
                    \E i \in 1..(j - 1) :
                        /\ calls[i].op = "fetch_update_ix"
                        /\ calls[i].st = "ok"
                        /\ calls[i].arg.feed = feeds[k]
              /\ Len(SelectSeq(SubSeq(calls, 1, j - 1),
                               LAMBDA c : c.op = "fetch_update_ix" /\ c.st = "ok"))
                    = Len(feeds)
              /\ \A i \in 1..(j - 1) : calls[i].st = "ok"
              /\ OkBefore("get_latest_blockhash", j)
              /\ OkBefore("try_compile", j)
              /\ OkBefore("try_new", j)
              /\ \E i \in 1..(j - 1) :
                    /\ calls[i].op = "simulate_transaction"
                    /\ calls[i].st = "ok"
                    /\ ~calls[i].val.err.some
    /\ (\E i \in CallIdx : calls[i].op = "simulate_transaction" /\ calls[i].st = "err")
          => ~Issued("send_and_confirm_transaction")
    /\ pc = "done" =>
          /\ result = Ok
          /\ calls[Len(calls)].op = "send_and_confirm_transaction"
          /\ calls[Len(calls)].st = "ok"
          /\ calls[Len(calls)].val \in Signatures
          /\ \E k \in 1..Len(out) :
                /\ out[k].tag = "Cranked feeds in one tx -> "
                /\ out[k].v[2] = calls[Len(calls)].val

C17_Witness ==
    /\ pc = "done"
    /\ Len(feeds) = 3
    /\ calls[Len(calls)].op = "send_and_confirm_transaction"
    /\ calls[Len(calls)].val = [signature |-> "S1"]
    /\ landed


\* C18: the anchor is fetched only when every feed request has returned
\* successfully and the budget has been planned, and before compilation; no
\* feed request follows the anchor fetch.
C18_AnchorAfterCollection ==
    \A j \in CallIdx :
        calls[j].op = "get_latest_blockhash" =>
            /\ Len(SelectSeq(SubSeq(calls, 1, j - 1),
                             LAMBDA c : c.op = "fetch_update_ix" /\ c.st = "ok"))
                  = Len(feeds)
            /\ \A i \in 1..(j - 1) :
                  /\ calls[i].op \in {"read_keypair_file", "fetch_update_ix"}
                  /\ calls[i].st = "ok"
            /\ compute_ixes = ComputeIxes(cu_limit)
            /\ cu_limit >= 300000
            /\ \A i \in (j + 1)..Len(calls) : calls[i].op # "fetch_update_ix"
            /\ \A i \in CallIdx :
                  calls[i].op = "try_compile" =>
                      /\ i > j
                      /\ calls[j].st = "ok"
                      /\ calls[i].arg.recent_blockhash = calls[j].val

C18_Witness ==
    /\ pc = "send_wait"
    /\ Len(feeds) = 3
    /\ calls[5].op = "get_latest_blockhash"
    /\ calls[6].op = "try_compile"
    /\ calls[4].op = "fetch_update_ix"


\* C19: every run terminates: when every awaited request returns, main
\* reaches Done or Failed, whatever the feed sequence and the outcomes.
C19_Terminates == <>Terminated

C19_Witness ==
    /\ pc = "done"
    /\ Len(feeds) = 2
    /\ \A i \in CallIdx : calls[i].st = "ok"
    /\ result = Ok

====
